---- MODULE Spec2Model ----
(***************************************************************************)
(* A model of deepsig/aso.py: the Almost Stochastic Order test (aso), its  *)
(* multi-model matrix (multi_aso), the Bayes-factor entry point (bf_aso),  *)
(* the bootstrap (get_bootstrap_estimates) with its joblib worker pool,    *)
(* and the violation ratio (compute_violation_ratio) over the empirical    *)
(* quantile functions (get_quantile_function).                             *)
(*                                                                         *)
(* Numbers.  Scores are integers.  A probability is a rational [n, d].     *)
(* A float is an extended real: [k |-> "fin", v |-> x] is x / Scale, and   *)
(* [k |-> "inf"], [k |-> "nan"] are IEEE's infinities and NaN.  Rounding   *)
(* of the binary representation is not modelled.  A value returned by      *)
(* compute_violation_ratio also carries its Python type: the int 0 of the  *)
(* zero-distance branch or a numpy float.                                  *)
(***************************************************************************)
EXTENDS Integers, Sequences, FiniteSets, TLC

\* ------------------------------------------------------------- bounds
\* num_bootstrap_iterations is drawn from 0..MaxIter.
MaxIter == 2
\* num_jobs is drawn from 0..MaxJobs.
MaxJobs == 2
\* num_samples is drawn from 0..MaxNumSamples.
MaxNumSamples == 2
\* multi_aso is given 1..MaxModels groups.
MaxModels == 3
\* compute_violation_ratio is given samples of 0..MaxLen scores.
MaxLen == 3

\* ------------------------------------------------------- float arithmetic
\* Fixed-point unit of a finite float: the value v stands for v / Scale.
Scale == 1000

\* Python's None where a string stands, and where an int (a seed, a generator
\* state), a float, a confidence level, a violation ratio or a progress bar does.
None == "None"
NoInt == -1
NoFloat == [k |-> "none", v |-> 0]
NoLevel == [n |-> 0, d |-> 0]
NoRatio == [ty |-> "none", v |-> 0, warn |-> FALSE]
NoBar == [on |-> FALSE, total |-> 0, n |-> 0]

Fin(x) == [k |-> "fin", v |-> x]
PosInf == [k |-> "inf", v |-> 1]
NegInf == [k |-> "inf", v |-> -1]
NaN == [k |-> "nan", v |-> 0]

Sign(x) == IF x > 0 THEN 1 ELSE IF x < 0 THEN -1 ELSE 0

\* IEEE multiplication: 0 * inf is NaN, NaN is absorbing.
FMul(x, y) ==
    IF x.k = "nan" \/ y.k = "nan" THEN NaN
    ELSE IF x.k = "fin" /\ y.k = "fin" THEN Fin((x.v * y.v) \div Scale)
    ELSE IF Sign(x.v) * Sign(y.v) = 0 THEN NaN
    ELSE IF Sign(x.v) * Sign(y.v) > 0 THEN PosInf ELSE NegInf

\* IEEE subtraction: inf - inf is NaN.
FSub(x, y) ==
    IF x.k = "nan" \/ y.k = "nan" THEN NaN
    ELSE IF x.k = "fin" /\ y.k = "fin" THEN Fin(x.v - y.v)
    ELSE IF x.k = "inf" /\ y.k = "inf"
         THEN (IF x.v = y.v THEN NaN ELSE x)
    ELSE IF x.k = "inf" THEN x
    ELSE IF y.v > 0 THEN NegInf ELSE PosInf

\* IEEE x > y: every comparison with NaN is false.
FGt(x, y) ==
    IF x.k = "nan" \/ y.k = "nan" THEN FALSE
    ELSE IF x.k = "fin" /\ y.k = "fin" THEN x.v > y.v
    ELSE IF x.k = "inf" /\ y.k = "inf" THEN x.v > y.v
    ELSE IF x.k = "inf" THEN x.v > 0
    ELSE y.v < 0

\* Python's max(x, y): x unless y > x.
PyMax(x, y) == IF FGt(y, x) THEN y ELSE x

\* Python's min(x, y): x unless y < x.
PyMin(x, y) == IF FGt(x, y) THEN y ELSE x

\* Floor of the square root of a natural number, by bisection of lo..hi.
RECURSIVE ISqrtIn(_, _, _)
ISqrtIn(x, lo, hi) ==
    IF hi - lo <= 1 THEN lo
    ELSE LET mid == (lo + hi) \div 2
         IN  IF mid * mid <= x THEN ISqrtIn(x, mid, hi) ELSE ISqrtIn(x, lo, mid)

\* The root of a 32-bit integer is below 46341.
ISqrt(x) == ISqrtIn(x, 0, IF x < 46340 THEN x + 1 ELSE 46341)

\* A rational q = n / d (d > 0) compared with a / b (b > 0).
RatLe(q, a, b) == q.n * b <= a * q.d

\* scipy.stats.norm.ppf on a rational level, in units of 1 / Scale: exact at
\* 0, 1/2 and 1 and outside [0, 1], a monotone step table in between.
NormalPpfLower(q) ==
    IF RatLe(q, 1, 100) THEN -2326
    ELSE IF RatLe(q, 1, 40) THEN -1960
    ELSE IF RatLe(q, 1, 20) THEN -1645
    ELSE IF RatLe(q, 1, 10) THEN -1282
    ELSE -674

NormalPpf(q) ==
    IF q.n < 0 \/ q.n > q.d THEN NaN
    ELSE IF q.n = 0 THEN NegInf
    ELSE IF q.n = q.d THEN PosInf
    ELSE IF 2 * q.n = q.d THEN Fin(0)
    ELSE IF 2 * q.n < q.d THEN Fin(NormalPpfLower(q))
    ELSE Fin(0 - NormalPpfLower([n |-> q.d - q.n, d |-> q.d]))

\* ------------------------------------------------------ quantile function
Min2(x, y) == IF x < y THEN x ELSE y
Max2(x, y) == IF x > y THEN x ELSE y

\* Insert x into the ascending sequence s.
RECURSIVE Insert(_, _)
Insert(x, s) ==
    IF s = <<>> THEN <<x>>
    ELSE IF x <= Head(s) THEN <<x>> \o s
    ELSE <<Head(s)>> \o Insert(x, Tail(s))

\* np.sort(scores)
RECURSIVE Sort(_)
Sort(s) == IF s = <<>> THEN <<>> ELSE Insert(Head(s), Sort(Tail(s)))

\* ceil(num * p) for p = pn / pd.
CeilMul(num, pn, pd) == (num * pn + pd - 1) \div pd

\* _quantile_function(p) of get_quantile_function(scores), p = pn / pd:
\* cdf[min(num - 1, max(0, index - 1))] with a 0-based index.
get_quantile_function(scores, pn, pd) ==
    LET cdf == Sort(scores)
        num == Len(scores)
        index == CeilMul(num, pn, pd)
    IN  cdf[Min2(num - 1, Max2(0, index - 1)) + 1]

\* --------------------------------------------------------- violation ratio
\* The number of points of np.arange(0, 1, dt) for dt = dt.n / dt.d.
GridSize(dt) == (dt.d + dt.n - 1) \div dt.n

\* diff with the two samples exchanged.
DiffExchanged(a, b, dt, k) ==
    get_quantile_function(a, k * dt.n, dt.d) - get_quantile_function(b, k * dt.n, dt.d)

\* diff at the k-th grid point p = k * dt.
Diff(a, b, dt, k) ==
    get_quantile_function(b, k * dt.n, dt.d) - get_quantile_function(a, k * dt.n, dt.d)

\* squared_wasserstein_dist after the points k..GridSize-1, in units of dt.
RECURSIVE SquaredWasserstein(_, _, _, _)
SquaredWasserstein(a, b, dt, k) ==
    IF k >= GridSize(dt) THEN 0
    ELSE Diff(a, b, dt, k) * Diff(a, b, dt, k) + SquaredWasserstein(a, b, dt, k + 1)

\* int_violation_set after the points k..GridSize-1, in units of dt.
RECURSIVE IntViolationSet(_, _, _, _)
IntViolationSet(a, b, dt, k) ==
    IF k >= GridSize(dt) THEN 0
    ELSE Max2(Diff(a, b, dt, k), 0) * Max2(Diff(a, b, dt, k), 0)
         + IntViolationSet(a, b, dt, k + 1)

\* The quotient taken without the zero-distance branch: 0.0 / 0.0 of numpy
\* floats is NaN, with no warning of this function's.
ViolationRatioNoFallback(a, b, dt) ==
    LET squared_wasserstein_dist == SquaredWasserstein(a, b, dt, 0)
        int_violation_set == IntViolationSet(a, b, dt, 0)
    IN  IF squared_wasserstein_dist = 0
        THEN [ty |-> "nan", v |-> 0, warn |-> FALSE]
        ELSE [ty |-> "float",
              v |-> (int_violation_set * Scale) \div squared_wasserstein_dist,
              warn |-> FALSE]

\* compute_violation_ratio(scores_a, scores_b, dt): the Python int 0 with a
\* warning when the distance is 0, the quotient as a numpy float otherwise.
compute_violation_ratio(a, b, dt) ==
    LET squared_wasserstein_dist == SquaredWasserstein(a, b, dt, 0)
        int_violation_set == IntViolationSet(a, b, dt, 0)
    IN  IF squared_wasserstein_dist = 0
        THEN [ty |-> "int", v |-> 0, warn |-> TRUE]
        ELSE [ty |-> "float",
              v |-> (int_violation_set * Scale) \div squared_wasserstein_dist,
              warn |-> FALSE]

\* ------------------------------------------------------------ bootstrap
\* The states of the pseudo-random generator of numpy (np.random), a linear
\* congruential generator here; a draw of uniform(0, 1) is state / 4.
RngStates == 0..3

\* The generator's next state.
RngNext(x) == (5 * x + 3) % 4

\* np.random.seed(seed)
RngSeed(seed) == seed % 4

\* quantile_func(np.random.uniform(0, 1, count)) from generator state x.
RECURSIVE Resample(_, _, _)
Resample(scores, x, count) ==
    IF count = 0 THEN <<>>
    ELSE <<get_quantile_function(scores, RngNext(x), 4)>>
         \o Resample(scores, RngNext(x), count - 1)

\* The generator's state after count draws from state x.
RECURSIVE RngAfter(_, _)
RngAfter(x, count) == IF count = 0 THEN x ELSE RngAfter(RngNext(x), count - 1)

\* A bootstrap iteration that never reseeds: every iteration of a worker draws
\* from the worker's one stream.
IterStateSharedStream(seed, own) == own

\* The generator state an iteration draws from: the one its seed sets, or the
\* worker process's own when there is no seed.
IterState(seed, own) == IF seed # NoInt THEN RngSeed(seed) ELSE own

\* _bootstrap_iter(seed) in a process whose generator is in state own.
_bootstrap_iter(seed, own, a, b, num_samples, dt) ==
    LET x0 == IterState(seed, own)
        sampled_scores_a == Resample(a, x0, num_samples)
        x1 == RngAfter(x0, num_samples)
        sampled_scores_b == Resample(b, x1, num_samples)
    IN  [sample |-> compute_violation_ratio(sampled_scores_a, sampled_scores_b, dt),
         rng |-> RngAfter(x1, num_samples)]

\* seeds[k] for the 0-based iteration k: seed + offset, offset = k + 1.
SeedOf(seed, k) == IF seed = NoInt THEN NoInt ELSE seed + k + 1

RECURSIVE SumV(_)
SumV(xs) == IF xs = <<>> THEN 0 ELSE Head(xs).v + SumV(Tail(xs))

RECURSIVE SumSq(_)
SumSq(xs) == IF xs = <<>> THEN 0 ELSE Head(xs).v * Head(xs).v + SumSq(Tail(xs))

\* np.std(const2 * (samples - violation_ratio)) with const2 = sqrt(num_samples / 2):
\* the shift leaves the deviation alone, the factor scales it.
SigmaHat(xs, num_samples) ==
    LET n == Len(xs)
        spread == n * SumSq(xs) - SumV(xs) * SumV(xs)
    IN  Fin(ISqrt((num_samples * spread) \div (2 * n * n)))

\* samples - violation_ratio: samples is the Python list joblib returns, and a
\* list minus a Python int is a TypeError (a list minus a numpy float is an array).
ListMinusRaises(violation_ratio) == violation_ratio.ty = "int"

\* ------------------------------------------------------------------- aso
\* The asserts of aso and of bf_aso.
ValidArgs(a, b, num_samples, num_bootstrap_iterations, num_jobs) ==
    /\ Len(a) > 0 /\ Len(b) > 0
    /\ num_samples > 0
    /\ num_bootstrap_iterations > 0
    /\ num_jobs > 0

\* 1 / const1, const1 = sqrt(len(a) * len(b) / (len(a) + len(b))).
InvConst1(a, b) == Fin(ISqrt((Scale * Scale * (Len(a) + Len(b))) \div (Len(a) * Len(b))))

\* min(max(violation_ratio - (1 / const1) * sigma_hat * normal.ppf(level), 0), 1)
MinEpsilon(violation_ratio, sigma, a, b, level) ==
    PyMin(PyMax(FSub(Fin(violation_ratio.v),
                     FMul(FMul(InvConst1(a, b), sigma), NormalPpf(level))),
                Fin(0)),
          Fin(Scale))

\* ------------------------------------------------------------------ state
VARIABLES
    call,             \* the arguments of the call being served
    pc,               \* "idle", "boot", "estimates", "multi_loop", "done"
    outcome,          \* "none", "returned" or the exception raised
    result,           \* the value returned
    frame,            \* the arguments of the aso / bf_aso call in progress
    violation_ratio,  \* get_bootstrap_estimates: the baseline
    dispatched,       \* the number of (seed, iter) pairs zip has produced
    current,          \* _progress_iter: current
    started,          \* _progress_iter: the generator has yielded once
    queue,            \* iterations handed to the pool and not yet run
    samples,          \* the iterations' results, by iteration
    rng,              \* each worker process's generator state
    sigma_hat,        \* get_bootstrap_estimates: sigma_hat
    progress,         \* the shared progress bar: its total and its count n
    itersRun,         \* bootstrap iterations executed since the call began
    eps_min,          \* multi_aso: the matrix
    mi, mj,           \* multi_aso: i and j of the two enumerate loops
    level,            \* multi_aso: confidence_level after the correction
    asoLog            \* multi_aso: the aso calls made and what they returned

vars == <<call, pc, outcome, result, frame, violation_ratio, dispatched, current,
          started, queue, samples, rng, sigma_hat, progress, itersRun, eps_min,
          mi, mj, level, asoLog>>

bootVars == <<violation_ratio, dispatched, current, started, queue, samples,
              sigma_hat>>

multiVars == <<eps_min, mi, mj, level, asoLog>>

\* The arguments of a call of aso or bf_aso: the two samples (and their
\* positions in multi_aso's collection), the confidence level, the seed, whether
\* a shared progress bar is handed over, and whether it is multi_aso's second
\* call for its pair.
Frame(fn, a, b, ia, ib, lvl, seed, bar, second) ==
    [fn |-> fn, a |-> a, b |-> b, ia |-> ia, ib |-> ib, level |-> lvl,
     seed |-> seed, bar |-> bar, second |-> second]

NoFrame == Frame(None, <<>>, <<>>, 0, 0, NoLevel, NoInt, FALSE, FALSE)

NoCall == [fn |-> None]

Init ==
    /\ call = NoCall
    /\ pc = "idle"
    /\ outcome = "none"
    /\ result = NoFloat
    /\ frame = NoFrame
    /\ violation_ratio = NoRatio
    /\ dispatched = 0
    /\ current = 0
    /\ started = FALSE
    /\ queue = <<>>
    /\ samples = <<>>
    /\ rng = [w \in 1..MaxJobs |-> NoInt]
    /\ sigma_hat = NoFloat
    /\ progress = NoBar
    /\ itersRun = 0
    /\ eps_min = <<>>
    /\ mi = 0
    /\ mj = 0
    /\ level = NoLevel
    /\ asoLog = <<>>

\* ----------------------------------------------------------------- inputs
\* The samples a call is given: empty, constant, unsorted, crossing.
Samples == {<<>>, <<2>>, <<2, 0>>, <<1, 1>>}

\* The confidence levels a call is given: 0.05, 0.95 and 1.
Levels == {[n |-> 1, d |-> 20], [n |-> 19, d |-> 20], [n |-> 1, d |-> 1]}

\* The seeds a call is given.
Seeds == {NoInt, 0, 1}

\* The steps dt a call is given: 1/4, and 2/5, which does not divide 1.
Dts == {[n |-> 1, d |-> 4], [n |-> 2, d |-> 5]}

\* --------------------------------------------- get_bootstrap_estimates
\* get_bootstrap_estimates up to the start of the pool: the baseline, the
\* iterator over the iterations and the seeds.
StartEstimates(c, f) ==
    /\ frame' = f
    /\ violation_ratio' = compute_violation_ratio(f.a, f.b, c.dt)
    /\ dispatched' = 0
    /\ current' = 0
    /\ started' = FALSE
    /\ queue' = <<>>
    /\ samples' = [k \in 1..c.num_bootstrap_iterations |-> NoRatio]
    /\ sigma_hat' = NoFloat
    /\ pc' = "boot"

\* aso and bf_aso from their first line to the pool's start: the asserts, then
\* get_bootstrap_estimates.
EnterTest(c, f) ==
    IF ValidArgs(f.a, f.b, c.num_samples, c.num_bootstrap_iterations, c.num_jobs)
    THEN /\ StartEstimates(c, f)
         /\ outcome' = "none"
    ELSE /\ outcome' = "AssertionError"
         /\ pc' = "done"
         /\ frame' = f
         /\ UNCHANGED bootVars

\* _progress_iter resumed by next(): past the first yield it steps current and
\* updates the bar before it yields again.
ProgressAfterNext(bar) ==
    IF started THEN [bar EXCEPT !.n = @ + 1] ELSE bar

\* Parallel pulls the next (seed, _) of zip(seeds, iters): zip asks seeds first
\* and resumes iters only when seeds had a next element.
BootDispatch ==
    /\ pc = "boot"
    /\ dispatched < call.num_bootstrap_iterations
    /\ call.num_jobs = 1 => queue = <<>>
    /\ Len(queue) < 2 * call.num_jobs
    /\ queue' = Append(queue, [k |-> dispatched, seed |-> SeedOf(frame.seed, dispatched)])
    /\ dispatched' = dispatched + 1
    /\ IF frame.bar
       THEN /\ started' = TRUE
            /\ current' = IF started THEN current + 1 ELSE current
            /\ progress' = ProgressAfterNext(progress)
       ELSE UNCHANGED <<started, current, progress>>
    /\ UNCHANGED <<call, pc, outcome, result, frame, violation_ratio, samples, rng,
                   sigma_hat, itersRun, multiVars>>

\* Worker w runs the oldest queued iteration.  A worker that has drawn nothing
\* yet starts from whatever state its process was given.
BootRun(w) ==
    /\ pc = "boot"
    /\ queue # <<>>
    /\ w \in 1..call.num_jobs
    /\ \E own \in (IF rng[w] = NoInt THEN RngStates ELSE {rng[w]}) :
          LET t == Head(queue)
              r == _bootstrap_iter(t.seed, own, frame.a, frame.b, call.num_samples,
                                  call.dt)
          IN  /\ samples' = [samples EXCEPT ![t.k + 1] = r.sample]
              /\ rng' = [rng EXCEPT ![w] = r.rng]
    /\ queue' = Tail(queue)
    /\ itersRun' = itersRun + 1
    /\ UNCHANGED <<call, pc, outcome, result, frame, violation_ratio, dispatched,
                   current, started, sigma_hat, progress, multiVars>>

\* The pool has returned every sample: sigma_hat, and the return to the caller.
BootFinish ==
    /\ pc = "boot"
    /\ dispatched = call.num_bootstrap_iterations
    /\ queue = <<>>
    /\ IF ListMinusRaises(violation_ratio)
       THEN /\ outcome' = "TypeError"
            /\ pc' = "done"
            /\ UNCHANGED sigma_hat
       ELSE /\ sigma_hat' = SigmaHat(samples, call.num_samples)
            /\ pc' = "estimates"
            /\ UNCHANGED outcome
    /\ UNCHANGED <<call, result, frame, violation_ratio, dispatched, current, started,
                   queue, samples, rng, progress, itersRun, multiVars>>

\* --------------------------------------------------------- aso, bf_aso
\* A call of aso(scores_a, scores_b, ...).
CallAso ==
    /\ pc = "idle"
    /\ \E a \in Samples, b \in Samples, lvl \in Levels, seed \in Seeds, dt \in Dts,
          ns \in 0..MaxNumSamples, iters \in 0..MaxIter, jobs \in 0..MaxJobs :
          LET c == [fn |-> "aso", scores |-> <<a, b>>, rep |-> "pair",
                    confidence_level |-> lvl, use_bonferroni |-> FALSE,
                    use_symmetry |-> FALSE, show_progress |-> FALSE,
                    num_samples |-> ns, num_bootstrap_iterations |-> iters,
                    dt |-> dt, num_jobs |-> jobs, seed |-> seed]
          IN  /\ call' = c
              /\ EnterTest(c, Frame("aso", a, b, 0, 1, lvl, seed, FALSE, FALSE))
    /\ UNCHANGED <<result, rng, progress, itersRun, multiVars>>

\* aso returns: eps_min, clamped into [0, 1] by max and min.
AsoReturn ==
    /\ pc = "estimates"
    /\ call.fn = "aso"
    /\ result' = MinEpsilon(violation_ratio, sigma_hat, frame.a, frame.b, frame.level)
    /\ outcome' = "returned"
    /\ pc' = "done"
    /\ UNCHANGED <<call, frame, bootVars, rng, progress, itersRun, multiVars>>

\* A call of bf_aso(scores_a, scores_b, ...): it hands get_bootstrap_estimates
\* no seed.
CallBfAso ==
    /\ pc = "idle"
    /\ \E a \in Samples, b \in Samples, dt \in Dts,
          ns \in 0..MaxNumSamples, iters \in 0..MaxIter, jobs \in 0..MaxJobs :
          LET c == [fn |-> "bf_aso", scores |-> <<a, b>>, rep |-> "pair",
                    confidence_level |-> NoLevel, use_bonferroni |-> FALSE,
                    use_symmetry |-> FALSE, show_progress |-> FALSE,
                    num_samples |-> ns, num_bootstrap_iterations |-> iters,
                    dt |-> dt, num_jobs |-> jobs, seed |-> NoInt]
          IN  /\ call' = c
              /\ EnterTest(c, Frame("bf_aso", a, b, 0, 1, NoLevel, NoInt, FALSE, FALSE))
    /\ UNCHANGED <<result, rng, progress, itersRun, multiVars>>

\* bf_aso returns its Bayes factor; the arithmetic of the factor is left out.
BfReturn ==
    /\ pc = "estimates"
    /\ call.fn = "bf_aso"
    /\ result' = [k |-> "bf", v |-> 0]
    /\ outcome' = "returned"
    /\ pc' = "done"
    /\ UNCHANGED <<call, frame, bootVars, rng, progress, itersRun, multiVars>>

Next ==
    \/ CallAso
    \/ CallBfAso
    \/ BootDispatch
    \/ \E w \in 1..MaxJobs : BootRun(w)
    \/ BootFinish
    \/ AsoReturn
    \/ BfReturn

Spec == Init /\ [][Next]_vars

\* -------------------------------------------------------------- multi_aso
\* The groups multi_aso is given.
Groups == {<<>>, <<1>>, <<2, 0>>, <<1, 1>>}

\* The representations of a collection: a dict, a nested list, a 2-D array
\* (whose rows have one length).
Reps == {"dict", "list", "array"}

\* The confidence levels multi_aso is given: 0.05 and 0.1.
MultiLevels == {[n |-> 1, d |-> 20], [n |-> 1, d |-> 10]}

\* The seeds multi_aso is given.
MultiSeeds == {NoInt, 0}

\* The step multi_aso is given.
MultiDts == {[n |-> 1, d |-> 4]}

\* The collections of n groups in representation r.
Collections(r, n) ==
    {s \in [1..n -> Groups] :
        r = "array" => \A x \in 1..n, y \in 1..n : Len(s[x]) = Len(s[y])}

\* _get_num_models(scores): the number of models, or the exception raised.
_get_num_models(r, scores) ==
    IF r = "dict"
    THEN (IF Len(scores) < 2
          THEN [error |-> "ValueError", n |-> 0]
          ELSE [error |-> None, n |-> Len(scores)])
    ELSE IF r = "list"
    THEN (IF Len(scores) = 0
          THEN [error |-> "IndexError", n |-> 0]
          ELSE [error |-> None, n |-> Len(scores)])
    ELSE [error |-> None, n |-> Len(scores)]

\* num_models * (num_models - 1) / 2
NumComparisons(num_models) == (num_models * (num_models - 1)) \div 2

\* np.eye(num_models)
Eye(num_models) ==
    [x \in 1..num_models |->
        [y \in 1..num_models |-> IF x = y THEN Fin(Scale) ELSE Fin(0)]]

\* The division applied once more: confidence_level / num_comparisons ** 2.
BonferroniSquared(lvl, num_comparisons) ==
    [n |-> lvl.n, d |-> lvl.d * num_comparisons * num_comparisons]

\* confidence_level /= num_comparisons
Bonferroni(lvl, num_comparisons) == [n |-> lvl.n, d |-> lvl.d * num_comparisons]

\* The total of the progress bar multi_aso creates.
BarTotal(num_comparisons, iters, use_symmetry) ==
    IF use_symmetry THEN num_comparisons * iters ELSE num_comparisons * iters * 2

\* eps_min[i, j] = x, i and j 0-based.
SetEntry(m, i, j, x) == [m EXCEPT ![i + 1][j + 1] = x]

\* A call of multi_aso(scores, ...), up to the head of its loops.  Here
\* num_samples and num_jobs are drawn from 0..1.
CallMultiAso ==
    /\ pc = "idle"
    /\ \E r \in Reps, n \in 1..MaxModels, lvl \in MultiLevels, seed \in MultiSeeds,
          dt \in MultiDts, bonf \in BOOLEAN, sym \in BOOLEAN, show \in BOOLEAN,
          ns \in 0..1, iters \in 0..MaxIter, jobs \in 0..1 :
        \E scores \in Collections(r, n) :
          LET c == [fn |-> "multi_aso", scores |-> scores, rep |-> r,
                    confidence_level |-> lvl, use_bonferroni |-> bonf,
                    use_symmetry |-> sym, show_progress |-> show,
                    num_samples |-> ns, num_bootstrap_iterations |-> iters,
                    dt |-> dt, num_jobs |-> jobs, seed |-> seed]
              got == _get_num_models(r, scores)
              num_comparisons == NumComparisons(got.n)
          IN  /\ call' = c
              /\ IF got.error # None
                 THEN /\ outcome' = got.error
                      /\ pc' = "done"
                      /\ UNCHANGED <<eps_min, level, progress>>
                 ELSE IF bonf /\ num_comparisons = 0
                 THEN /\ outcome' = "ZeroDivisionError"
                      /\ pc' = "done"
                      /\ eps_min' = Eye(got.n)
                      /\ UNCHANGED <<level, progress>>
                 ELSE /\ outcome' = "none"
                      /\ pc' = "multi_loop"
                      /\ eps_min' = Eye(got.n)
                      /\ level' = IF bonf THEN Bonferroni(lvl, num_comparisons) ELSE lvl
                      /\ progress' = IF show
                                     THEN [on |-> TRUE,
                                           total |-> BarTotal(num_comparisons, iters, sym),
                                           n |-> 0]
                                     ELSE NoBar
    /\ mi' = 0
    /\ mj' = 0
    /\ UNCHANGED <<result, frame, bootVars, rng, itersRun, asoLog>>

\* The loops have a next pair: for j, key_j in enumerate(indices[(i + 1):]) gives
\* the offset j and the key at position i + 1 + j; aso is called on the pair.
MultiCallAso ==
    /\ pc = "multi_loop"
    /\ mi < Len(call.scores)
    /\ mi + 1 + mj < Len(call.scores)
    /\ EnterTest(call, Frame("aso", call.scores[mi + 1], call.scores[mi + 1 + mj + 1],
                             mi, mi + 1 + mj, level, call.seed, progress.on, FALSE))
    /\ UNCHANGED <<call, result, rng, progress, itersRun, multiVars>>

\* The inner loop is exhausted: the next i.
MultiNextRow ==
    /\ pc = "multi_loop"
    /\ mi < Len(call.scores)
    /\ mi + 1 + mj >= Len(call.scores)
    /\ mi' = mi + 1
    /\ mj' = 0
    /\ UNCHANGED <<call, pc, outcome, result, frame, bootVars, rng, progress, itersRun,
                   eps_min, level, asoLog>>

\* The outer loop is exhausted: multi_aso returns eps_min.
MultiReturn ==
    /\ pc = "multi_loop"
    /\ mi >= Len(call.scores)
    /\ result' = [k |-> "matrix", v |-> 0]
    /\ outcome' = "returned"
    /\ pc' = "done"
    /\ UNCHANGED <<call, frame, bootVars, rng, progress, itersRun, multiVars>>

\* aso returns into multi_aso's loop body: the entry is stored, then filled in
\* by symmetry, or aso is called on the swapped pair, whose result is stored too.
AsoReturnMulti ==
    /\ pc = "estimates"
    /\ call.fn = "multi_aso"
    /\ LET x == MinEpsilon(violation_ratio, sigma_hat, frame.a, frame.b, frame.level)
           stored == SetEntry(eps_min, mi, mj, x)
       IN  /\ asoLog' = Append(asoLog, [a |-> frame.ia, b |-> frame.ib,
                                        level |-> frame.level, value |-> x])
           /\ IF call.use_symmetry
              THEN /\ eps_min' = SetEntry(stored, mj, mi, stored[mi + 1][mj + 1])
                   /\ mj' = mj + 1
                   /\ pc' = "multi_loop"
                   /\ UNCHANGED <<outcome, frame, bootVars>>
              ELSE IF ~frame.second
              THEN /\ eps_min' = stored
                   /\ mj' = mj
                   /\ EnterTest(call, Frame("aso", frame.b, frame.a, frame.ib, frame.ia,
                                            level, call.seed, progress.on, TRUE))
              ELSE /\ eps_min' = stored
                   /\ mj' = mj + 1
                   /\ pc' = "multi_loop"
                   /\ UNCHANGED <<outcome, frame, bootVars>>
    /\ UNCHANGED <<call, result, rng, progress, itersRun, mi, level>>

NextMulti ==
    \/ CallMultiAso
    \/ MultiCallAso
    \/ MultiNextRow
    \/ MultiReturn
    \/ BootDispatch
    \/ \E w \in 1..MaxJobs : BootRun(w)
    \/ BootFinish
    \/ AsoReturnMulti

SpecMulti == Init /\ [][NextMulti]_vars

\* ------------------------------------------- compute_violation_ratio alone
\* The scores of a sample.
ScoreValues == 0..2

\* The samples compute_violation_ratio is given: every sequence of 0..MaxLen
\* scores.
RatioSamples == UNION {[1..n -> ScoreValues] : n \in 0..MaxLen}

\* The values of dt: 0.25, 1/3, 0.4, 1 and 1.5 (np.arange(0, 1, dt) is [0] from
\* dt = 1 on).
RatioDts == {[n |-> 1, d |-> 4], [n |-> 1, d |-> 3], [n |-> 2, d |-> 5],
             [n |-> 1, d |-> 1], [n |-> 3, d |-> 2]}

\* A call of compute_violation_ratio(scores_a, scores_b, dt).
CallViolationRatio ==
    /\ pc = "idle"
    /\ \E a \in RatioSamples, b \in RatioSamples, dt \in RatioDts :
          /\ call' = [fn |-> "compute_violation_ratio", dt |-> dt]
          /\ frame' = Frame("compute_violation_ratio", a, b, 0, 0, NoLevel, NoInt,
                            FALSE, FALSE)
    /\ pc' = "ratio"
    /\ UNCHANGED <<outcome, result, bootVars, rng, progress, itersRun, multiVars>>

\* The loop over the grid and the return: cdf[-1] of an empty sample raises
\* IndexError at the first grid point.
ViolationRatioReturn ==
    /\ pc = "ratio"
    /\ IF Len(frame.a) = 0 \/ Len(frame.b) = 0
       THEN /\ outcome' = "IndexError"
            /\ UNCHANGED violation_ratio
       ELSE /\ outcome' = "returned"
            /\ violation_ratio' = compute_violation_ratio(frame.a, frame.b, call.dt)
    /\ pc' = "done"
    /\ UNCHANGED <<call, result, frame, dispatched, current, started, queue, samples,
                   sigma_hat, rng, progress, itersRun, multiVars>>

NextRatio ==
    \/ CallViolationRatio
    \/ ViolationRatioReturn

SpecRatio == Init /\ [][NextRatio]_vars

\* ================================================================ claims
Returned(fn) == outcome = "returned" /\ call.fn = fn

\* The entry eps_min[i, j] of the matrix, i and j 0-based.
Entry(i, j) == eps_min[i + 1][j + 1]

\* The values the aso calls on (samples at position i, samples at position j)
\* returned during this multi_aso call.
AsoValues(i, j) == {asoLog[x].value : x \in {y \in 1..Len(asoLog) :
                                              asoLog[y].a = i /\ asoLog[y].b = j}}

\* ------------------------------------------------------------------- C1
\* The bootstrap sample of an iteration computed from its own seed alone.
SeededSample(seed, a, b, num_samples, dt) ==
    compute_violation_ratio(
        Resample(a, RngSeed(seed), num_samples),
        Resample(b, RngAfter(RngSeed(seed), num_samples), num_samples),
        dt)

\* What aso returns when iteration k (0-based) is computed from seed + k + 1.
SeededAso(c) ==
    LET a == c.scores[1]
        b == c.scores[2]
        xs == [k \in 1..c.num_bootstrap_iterations |->
                 SeededSample(c.seed + k, a, b, c.num_samples, c.dt)]
    IN  MinEpsilon(compute_violation_ratio(a, b, c.dt), SigmaHat(xs, c.num_samples),
                   a, b, c.confidence_level)

\* C1: with a seed, every bootstrap sample is the one computed from its own seed,
\* seed + k + 1, whichever worker ran it and in whatever order, for every
\* num_jobs >= 1; so what aso returns is a function of its arguments without
\* num_jobs.
C1_BootstrapDeterministic ==
    (call.fn = "aso" /\ call.seed # NoInt /\ pc \in {"boot", "estimates", "done"}) =>
        /\ \A k \in 1..Len(samples) :
              samples[k] # NoRatio =>
                 samples[k] = SeededSample(call.seed + k, frame.a, frame.b,
                                           call.num_samples, call.dt)
        /\ Returned("aso") => result = SeededAso(call)

\* A seeded aso call has returned after two workers ran one iteration each, the
\* two samples being different.
C1_Witness ==
    /\ Returned("aso")
    /\ call.seed # NoInt
    /\ call.num_jobs = 2
    /\ call.num_bootstrap_iterations = 2
    /\ rng[1] # NoInt /\ rng[2] # NoInt
    /\ samples[1] # samples[2]

\* ------------------------------------------------------------------- C2
\* C2: in the matrix multi_aso returns for n >= 2 models, every entry (i, j),
\* i < j, is the result of the aso call on the samples at positions i and j.
C2_EntryIsPairResult ==
    (Returned("multi_aso") /\ Len(call.scores) >= 2) =>
        \A i \in 0..(Len(call.scores) - 1), j \in 0..(Len(call.scores) - 1) :
            i < j => Entry(i, j) \in AsoValues(i, j)

\* ------------------------------------------------------------------- C3
\* C3: with use_symmetry, the returned matrix has M[i, j] + M[j, i] = 1 for
\* all i # j.
C3_SymmetrySumsToOne ==
    (Returned("multi_aso") /\ call.use_symmetry) =>
        \A i \in 0..(Len(call.scores) - 1), j \in 0..(Len(call.scores) - 1) :
            i # j => FSub(Fin(Scale), Entry(i, j)) = Entry(j, i)

\* ------------------------------------------------------------------- C4
\* C4: without use_symmetry, multi_aso calls aso on (i, j) and on (j, i) for
\* every pair i < j, and the returned matrix holds the first result at M[i, j]
\* and the second at M[j, i].
C4_BothDirectionsKept ==
    (Returned("multi_aso") /\ ~call.use_symmetry) =>
        \A i \in 0..(Len(call.scores) - 1), j \in 0..(Len(call.scores) - 1) :
            i < j => /\ Entry(i, j) \in AsoValues(i, j)
                     /\ Entry(j, i) \in AsoValues(j, i)

\* ------------------------------------------------------------------- C5
\* C5: what aso returns is a number e with 0 <= e <= 1.
C5_AsoInUnitInterval ==
    Returned("aso") => (result.k = "fin" /\ 0 <= result.v /\ result.v <= Scale)

\* ------------------------------------------------------------------- C6
\* A call with an argument the validation rejects.
InvalidCall ==
    /\ call.fn # None
    /\ \/ \E x \in 1..Len(call.scores) : Len(call.scores[x]) = 0
       \/ call.num_samples <= 0
       \/ call.num_bootstrap_iterations <= 0
       \/ call.num_jobs < 1

\* C6: a call with an empty sample, a non-positive num_samples or
\* num_bootstrap_iterations, or num_jobs < 1 never ends in a result, and when
\* its validation error is raised no bootstrap iteration has been executed
\* (stated for the calls that hold at least two samples).
C6_FailFast ==
    (InvalidCall /\ Len(call.scores) >= 2 /\ pc = "done") =>
        /\ outcome # "returned"
        /\ outcome = "AssertionError" => itersRun = 0

\* ------------------------------------------------------------------- C7
\* C7: multi_aso on fewer than 2 groups ends in an error and returns no matrix,
\* in every representation and with or without the Bonferroni correction.
C7_FewerThanTwoGroupsRejected ==
    (call.fn = "multi_aso" /\ Len(call.scores) < 2) => outcome # "returned"

\* ------------------------------------------------------------------- C8
\* C8: a valid call of aso whose two samples are at distance 0 on the grid gets
\* violation ratio 0 with a warning and runs to completion: it returns a result.
C8_ZeroDistanceNonFatal ==
    (call.fn = "aso" /\ pc = "done" /\ outcome # "AssertionError"
        /\ SquaredWasserstein(frame.a, frame.b, call.dt, 0) = 0) =>
        /\ violation_ratio.v = 0 /\ violation_ratio.warn
        /\ outcome = "returned"

\* ------------------------------------------------------------------- C9
\* Every quantile of a is >= the quantile of b on the grid, and one is greater.
Dominates(a, b, dt) ==
    /\ \A k \in 0..(GridSize(dt) - 1) :
          get_quantile_function(a, k * dt.n, dt.d) >= get_quantile_function(b, k * dt.n, dt.d)
    /\ \E k \in 0..(GridSize(dt) - 1) :
          get_quantile_function(a, k * dt.n, dt.d) # get_quantile_function(b, k * dt.n, dt.d)

\* Every score of the sample is x.
Constant(a) == \A k \in 1..Len(a) : a[k] = a[1]

\* A call whose baseline has been computed.
Estimating == pc \in {"boot", "estimates"} \/ outcome \in {"returned", "TypeError"}

\* C9 as stated: when a dominates b on the grid, the violation ratio is 1, and
\* for constant samples a > b aso returns 1 with sigma_hat 0.
C9_DominanceGivesOne ==
    (call.fn = "aso" /\ Estimating /\ Dominates(frame.a, frame.b, call.dt)) =>
        /\ violation_ratio.v = Scale
        /\ (Returned("aso") /\ Constant(frame.a) /\ Constant(frame.b)) =>
              (sigma_hat = Fin(0) /\ result = Fin(Scale))

\* C9 amended: when a dominates b on the grid, the violation mass is 0 and the
\* violation ratio is 0 (a numpy float, no warning); for constant samples a > b
\* sigma_hat is 0 and aso returns 0 at a confidence level below 1, NaN at 1.
C9_DominanceGivesZero ==
    (call.fn = "aso" /\ Estimating /\ Dominates(frame.a, frame.b, call.dt)) =>
        /\ violation_ratio = [ty |-> "float", v |-> 0, warn |-> FALSE]
        /\ IntViolationSet(frame.a, frame.b, call.dt, 0) = 0
        /\ (Returned("aso") /\ Constant(frame.a) /\ Constant(frame.b)) =>
              /\ sigma_hat = Fin(0)
              /\ result = IF call.confidence_level.n < call.confidence_level.d
                          THEN Fin(0) ELSE NaN

\* aso has returned on constant samples a > b at a confidence level below 1.
C9_Witness ==
    /\ Returned("aso")
    /\ Dominates(frame.a, frame.b, call.dt)
    /\ Constant(frame.a) /\ Constant(frame.b)
    /\ call.confidence_level.n < call.confidence_level.d
    /\ call.num_bootstrap_iterations = MaxIter

\* ------------------------------------------------------------------ C10
\* The number of aso calls multi_aso makes on n models.
PairCalls(n, use_symmetry) ==
    IF use_symmetry THEN NumComparisons(n) ELSE 2 * NumComparisons(n)

\* C10: when multi_aso returns, the shared progress bar has been updated once per
\* bootstrap iteration: its count is its total, n(n-1)/2 * N with use_symmetry
\* and n(n-1) * N without.
C10_ProgressCountsEveryIteration ==
    (Returned("multi_aso") /\ progress.on) =>
        /\ progress.total = PairCalls(Len(call.scores), call.use_symmetry)
                            * call.num_bootstrap_iterations
        /\ progress.n = progress.total

\* ------------------------------------------------------------------ C11
\* The level lvl is original / (n(n-1)/2), as rationals.
IsAdjusted(lvl, original, n) ==
    lvl.n * original.d * n * (n - 1) = 2 * original.n * lvl.d

\* The level lvl is the original one, as rationals.
IsOriginal(lvl, original) == lvl.n * original.d = original.n * lvl.d

\* The level a pairwise aso call of this multi_aso call is to receive.
ExpectedLevel(lvl) ==
    IF call.use_bonferroni
    THEN IsAdjusted(lvl, call.confidence_level, Len(call.scores))
    ELSE IsOriginal(lvl, call.confidence_level)

\* C11: every aso call multi_aso makes, the one under way and the ones that have
\* returned, of either direction, received original / (n(n-1)/2) with
\* use_bonferroni and the original confidence level without.
C11_BonferroniAppliedOnce ==
    call.fn = "multi_aso" =>
        /\ frame # NoFrame => ExpectedLevel(frame.level)
        /\ \A x \in 1..Len(asoLog) : ExpectedLevel(asoLog[x].level)

\* multi_aso on three groups with use_bonferroni and without use_symmetry has
\* had aso calls of both directions and of two pairs return.
C11_Witness ==
    /\ call.fn = "multi_aso"
    /\ call.use_bonferroni
    /\ ~call.use_symmetry
    /\ Len(call.scores) = 3
    /\ \E x, y, z \in 1..Len(asoLog) :
          /\ asoLog[x].a < asoLog[x].b
          /\ asoLog[y].a > asoLog[y].b
          /\ asoLog[z].a # asoLog[x].a
          /\ IsAdjusted(asoLog[z].level, call.confidence_level, 3)
          /\ ~IsOriginal(asoLog[z].level, call.confidence_level)

\* ------------------------------------------------------------------ C12
\* C12: compute_violation_ratio(A, A, dt) on a non-empty sample A returns 0: diff
\* is 0 at every grid point, the distance is 0, and the value is the 0 of the
\* zero-distance branch, given with its warning, not a quotient.
C12_IdenticalSamplesGiveZero ==
    (call.fn = "compute_violation_ratio" /\ pc = "done"
     /\ frame.a = frame.b /\ Len(frame.a) > 0) =>
        /\ outcome = "returned"
        /\ \A k \in 0..(GridSize(call.dt) - 1) : Diff(frame.a, frame.b, call.dt, k) = 0
        /\ SquaredWasserstein(frame.a, frame.b, call.dt, 0) = 0
        /\ violation_ratio = [ty |-> "int", v |-> 0, warn |-> TRUE]

\* compute_violation_ratio has returned on twice the same unsorted sample of
\* MaxLen scores, on a grid of more than one point.
C12_Witness ==
    /\ call.fn = "compute_violation_ratio"
    /\ outcome = "returned"
    /\ frame.a = frame.b
    /\ Len(frame.a) = MaxLen
    /\ frame.a # Sort(frame.a)
    /\ GridSize(call.dt) > 1

====
